---- MODULE Spec2Model ----
(***************************************************************************)
(* Model of the multi-operation cleaning endpoint POST /api/limpiezas      *)
(* (limpiar_dataset_multiple, src/app.py) together with the collaborators  *)
(* it talks to: the storage bucket "datasets", the local temp/ directory   *)
(* and the catalog tables limpiezas_datos and duplicados_datasets.         *)
(*                                                                         *)
(* Numbers: quantiles are carried multiplied by 4 and bounds multiplied by *)
(* 8, the threshold "umbral" is carried as a number of halves (1.5 is 3),  *)
(* so that every comparison the code makes in floating point is made here  *)
(* exactly on integers.                                                    *)
(***************************************************************************)
EXTENDS Integers, Sequences, FiniteSets, TLC

VARIABLES
    storage,                \* bucket "datasets": path -> csv bytes
    temp,                   \* local directory temp/: path -> csv bytes
    datasets,               \* table datasets: id -> row
    limpiezas_datos,        \* table limpiezas_datos: sequence of rows
    duplicados_datasets,    \* table duplicados_datasets: sequence of rows
    request,                \* per invocation: the JSON body received
    pc,                     \* per invocation: position in the handler
    ruta_dataset,           \* per invocation: local ruta_dataset
    df,                     \* per invocation: local df
    idx,                    \* per invocation: 1-based position of the for loop
    operaciones_realizadas, \* per invocation: local operaciones_realizadas
    total_afectados,        \* per invocation: local total_afectados
    duplicados_guardados,   \* per invocation: local duplicados_guardados
    respuesta,              \* per invocation: the response returned
    uploads,                \* per invocation: the storage uploads it made
    inserts                 \* per invocation: the catalog inserts it made

vars == <<storage, temp, datasets, limpiezas_datos, duplicados_datasets,
          request, pc, ruta_dataset, df, idx, operaciones_realizadas,
          total_afectados, duplicados_guardados, respuesta, uploads, inserts>>

shared == <<storage, temp, datasets, limpiezas_datos, duplicados_datasets>>

----------------------------------------------------------------------------
(* Bounds of the model.                                                    *)

MaxOps == 3         \* longest tipos_limpieza list of a request (Spec)
MaxRows == 3        \* most data lines of a generated dataset (SpecOps)

Invocations == {1, 2}

----------------------------------------------------------------------------
(* Cell values of a DataFrame and fields of a csv file.                    *)

NULL == [k |-> "null", n |-> 0, t |-> ""]
Num(n) == [k |-> "num", n |-> n, t |-> ""]
Str(t) == [k |-> "str", n |-> 0, t |-> t]

IsNull(v) == v.k = "null"

\* csv fields: a number (dec: written with a decimal point), a text, nothing
FEmpty == [k |-> "empty", n |-> 0, t |-> "", dec |-> FALSE]
FNum(n) == [k |-> "num", n |-> n, t |-> "", dec |-> FALSE]
FDec(n) == [k |-> "num", n |-> n, t |-> "", dec |-> TRUE]
FStr(t) == [k |-> "str", n |-> 0, t |-> t, dec |-> FALSE]

\* the texts pandas.read_csv reads as a missing value (those the model uses)
NaTexts == {"N/A", "NA", "NaN", "null"}

FieldIsNa(f) == f.k = "empty" \/ (f.k = "str" /\ f.t \in NaTexts)

FieldText(f) ==
    IF f.k = "str" THEN f.t
    ELSE IF f.dec THEN ToString(f.n) \o ".0" ELSE ToString(f.n)

----------------------------------------------------------------------------
(* Sequence helpers.                                                       *)

RECURSIVE SelectIdx(_, _, _)
\* the subsequence of s at the positions k..Len(s) that belong to keep
SelectIdx(s, keep, k) ==
    IF k > Len(s) THEN <<>>
    ELSE IF k \in keep THEN <<s[k]>> \o SelectIdx(s, keep, k + 1)
    ELSE SelectIdx(s, keep, k + 1)

Range(s) == {s[k] : k \in DOMAIN s}

Put(f, p, v) == [q \in (DOMAIN f) \cup {p} |-> IF q = p THEN v ELSE f[q]]

----------------------------------------------------------------------------
(* DataFrames: columns in order, a dtype per column, rows in order.        *)

EmptyFrame == [columns |-> <<>>, dtypes |-> <<>>, rows |-> <<>>]

ColIndex(d, col) == CHOOSE j \in DOMAIN d.columns : d.columns[j] = col

HasColumn(d, col) == \E j \in DOMAIN d.columns : d.columns[j] = col

Dtype(d, col) == d.dtypes[ColIndex(d, col)]

Cell(d, r, col) == d.rows[r][ColIndex(d, col)]

\* len(df)
RowCount(d) == Len(d.rows)

\* DataFrame.empty: no column or no row
IsEmpty(d) == Len(d.columns) = 0 \/ Len(d.rows) = 0

\* df[mask]: the rows at the positions of keep, order, columns and dtypes kept
TakeRows(d, keep) == [d EXCEPT !.rows = SelectIdx(d.rows, keep, 1)]

----------------------------------------------------------------------------
(* pandas.read_csv(temp_path, on_bad_lines='skip') and DataFrame.to_csv.   *)

\* a line with more fields than the header is skipped, a shorter one padded
GoodLines(csv) ==
    SelectIdx(csv.lines,
              {k \in DOMAIN csv.lines : Len(csv.lines[k]) <= Len(csv.header)}, 1)

FieldAt(line, j) == IF j <= Len(line) THEN line[j] ELSE FEmpty

\* the dtype read_csv infers for column j from the fields of the kept lines
InferDtype(lines, j) ==
    LET fs == {FieldAt(lines[k], j) : k \in DOMAIN lines} IN
    IF fs = {} THEN "object"
    ELSE IF \E f \in fs : ~FieldIsNa(f) /\ f.k = "str" THEN "object"
    ELSE IF \E f \in fs : FieldIsNa(f) \/ f.dec THEN "float64"
    ELSE "int64"

ParseField(f, dtype) ==
    IF FieldIsNa(f) THEN NULL
    ELSE IF dtype = "object" THEN Str(FieldText(f))
    ELSE Num(f.n)

ReadCsv(csv) ==
    LET lines == GoodLines(csv)
        dts == [j \in DOMAIN csv.header |-> InferDtype(lines, j)]
    IN [columns |-> csv.header,
        dtypes |-> dts,
        rows |-> [k \in DOMAIN lines |->
                    [j \in DOMAIN csv.header |->
                        ParseField(FieldAt(lines[k], j), dts[j])]]]

FormatCell(v, dtype) ==
    IF v.k = "null" THEN FEmpty
    ELSE IF v.k = "str" THEN FStr(v.t)
    ELSE IF dtype = "float64" THEN FDec(v.n)
    ELSE FNum(v.n)

\* df.to_csv(path, index=False): the header, then one line per row
ToCsv(d) ==
    [header |-> d.columns,
     lines |-> [k \in DOMAIN d.rows |->
                  [j \in DOMAIN d.columns |-> FormatCell(d.rows[k][j], d.dtypes[j])]]]

----------------------------------------------------------------------------
(* tipo == "duplicados"                                                    *)

\* df.duplicated(): the rows equal to an earlier row (missing equals missing)
Duplicated(d) ==
    {r \in DOMAIN d.rows : \E q \in 1..(r - 1) : d.rows[q] = d.rows[r]}

DropDuplicates(d) == TakeRows(d, (DOMAIN d.rows) \ Duplicated(d))

Duplicados(d, dups) ==
    LET antes == RowCount(d)
        nuevo == DropDuplicates(d)
    IN [error |-> "",
        df |-> nuevo,
        dups |-> TakeRows(d, Duplicated(d)),
        afectados |-> antes - RowCount(nuevo)]

----------------------------------------------------------------------------
(* tipo == "nulos"                                                         *)

\* df.isnull().sum().sum()
NullCount(d) ==
    Cardinality({c \in (DOMAIN d.rows) \X (DOMAIN d.columns) :
                    IsNull(d.rows[c[1]][c[2]])})

FillValue(dtype) == IF dtype = "object" THEN Str("N/A") ELSE Num(0)

FillNa(d) ==
    [d EXCEPT !.rows =
        [r \in DOMAIN d.rows |->
            [j \in DOMAIN d.columns |->
                IF IsNull(d.rows[r][j]) THEN FillValue(d.dtypes[j])
                ELSE d.rows[r][j]]]]

\* mutant of Nulos: the rows that held a missing value are counted, not the cells
NulosPorFila(d, dups) ==
    [error |-> "",
     df |-> FillNa(d),
     dups |-> dups,
     afectados |-> Cardinality({r \in DOMAIN d.rows :
                       \E j \in DOMAIN d.columns : IsNull(d.rows[r][j])})]

Nulos(d, dups) ==
    LET nulos_antes == NullCount(d)
    IN [error |-> "", df |-> FillNa(d), dups |-> dups, afectados |-> nulos_antes]

----------------------------------------------------------------------------
(* tipo == "outliers"                                                      *)

\* the non-missing numbers of a column, as a sequence (Series.quantile skips
\* missing values)
ColumnNumbers(d, col) ==
    LET j == ColIndex(d, col)
        rs == SelectIdx(d.rows, {r \in DOMAIN d.rows : d.rows[r][j].k = "num"}, 1)
    IN [k \in DOMAIN rs |-> rs[k][j].n]

\* the k-th smallest (k from 0) of a non-empty sequence of numbers
Kth(vals, k) ==
    CHOOSE v \in Range(vals) :
        /\ Cardinality({i \in DOMAIN vals : vals[i] < v}) <= k
        /\ k < Cardinality({i \in DOMAIN vals : vals[i] <= v})

\* 4 * Series.quantile(num / 4), linear interpolation, of a non-empty sequence
Quantile4(vals, num) ==
    LET pos == num * (Len(vals) - 1)
        lo == pos \div 4
        rem == pos % 4
    IN IF rem = 0 THEN 4 * Kth(vals, lo)
       ELSE 4 * Kth(vals, lo) + rem * (Kth(vals, lo + 1) - Kth(vals, lo))

\* 8 * lower and 8 * upper for a column; nan when the column has no number
Bounds(d, col, umbral) ==
    LET vals == ColumnNumbers(d, col) IN
    IF Len(vals) = 0 THEN [nan |-> TRUE, lower |-> 0, upper |-> 0]
    ELSE LET Q1 == Quantile4(vals, 1)
             Q3 == Quantile4(vals, 3)
             IQR == Q3 - Q1
         IN [nan |-> FALSE,
             lower |-> 2 * Q1 - umbral * IQR,
             upper |-> 2 * Q3 + umbral * IQR]

\* mutant of Within: the bounds are exclusive
WithinStrict(v, b) ==
    /\ v.k = "num"
    /\ ~b.nan
    /\ 8 * v.n > b.lower
    /\ 8 * v.n < b.upper

\* (v >= lower) & (v <= upper); every comparison with a missing value or a
\* nan bound is False
Within(v, b) ==
    /\ v.k = "num"
    /\ ~b.nan
    /\ 8 * v.n >= b.lower
    /\ 8 * v.n <= b.upper

\* df = df[(df[col] >= lower) & (df[col] <= upper)]
FilterColumn(d, col, umbral) ==
    LET b == Bounds(d, col, umbral)
        j == ColIndex(d, col)
    IN TakeRows(d, {r \in DOMAIN d.rows : Within(d.rows[r][j], b)})

\* df[col] raises KeyError for a column the frame has not; quantile raises
\* TypeError on an object column that holds a text
ColumnError(d, col) ==
    IF ~HasColumn(d, col) THEN "KeyError"
    ELSE IF /\ Dtype(d, col) = "object"
            /\ \E r \in DOMAIN d.rows : Cell(d, r, col).k = "str"
         THEN "TypeError"
    ELSE ""

\* mutant of OutliersLoop: every column's bounds are computed on the frame
\* the operation started from and the filters are intersected
OutliersLoopSnapshot(d, columnas, umbral, k) ==
    IF \E c \in DOMAIN columnas : ColumnError(d, columnas[c]) # ""
    THEN [error |-> "KeyError", df |-> d]
    ELSE [error |-> "",
          df |-> TakeRows(d, {r \in DOMAIN d.rows :
                    \A c \in DOMAIN columnas :
                        Within(Cell(d, r, columnas[c]), Bounds(d, columnas[c], umbral))})]

RECURSIVE OutliersLoop(_, _, _, _)
\* for col in columnas, from position k on
OutliersLoop(d, columnas, umbral, k) ==
    IF k > Len(columnas) THEN [error |-> "", df |-> d]
    ELSE IF ColumnError(d, columnas[k]) # ""
         THEN [error |-> ColumnError(d, columnas[k]), df |-> d]
    ELSE OutliersLoop(FilterColumn(d, columnas[k], umbral), columnas, umbral, k + 1)

\* list(df.select_dtypes(include=['float64', 'int64']).columns)
NumericColumns(d) ==
    SelectIdx(d.columns, {j \in DOMAIN d.columns : d.dtypes[j] \in {"float64", "int64"}}, 1)

\* parametros.get("columnas", ...); an absent key is the empty option <<>>
GetColumnas(parametros, d) ==
    IF parametros.columnas = <<>> THEN NumericColumns(d) ELSE parametros.columnas[1]

\* parametros.get("umbral", 1.5), in halves
GetUmbral(parametros) ==
    IF parametros.umbral = <<>> THEN 3 ELSE parametros.umbral[1]

Outliers(d, dups, parametros) ==
    LET columnas == GetColumnas(parametros, d)
        umbral == GetUmbral(parametros)
        antes == RowCount(d)
        res == OutliersLoop(d, columnas, umbral, 1)
    IN [error |-> res.error,
        df |-> res.df,
        dups |-> dups,
        afectados |-> antes - RowCount(res.df)]

----------------------------------------------------------------------------
(* One iteration of "for limpieza in tipos_limpieza".                      *)

\* mutant of ApplyTipo: a tipo that is none of the three raises
ApplyTipoEstricto(d, dups, limpieza) ==
    CASE limpieza.tipo = "duplicados" -> Duplicados(d, dups)
      [] limpieza.tipo = "nulos" -> Nulos(d, dups)
      [] limpieza.tipo = "outliers" -> Outliers(d, dups, limpieza.parametros)
      [] OTHER -> [error |-> "ValueError", df |-> d, dups |-> dups, afectados |-> 0]

ApplyTipo(d, dups, limpieza) ==
    CASE limpieza.tipo = "duplicados" -> Duplicados(d, dups)
      [] limpieza.tipo = "nulos" -> Nulos(d, dups)
      [] limpieza.tipo = "outliers" -> Outliers(d, dups, limpieza.parametros)
      [] OTHER -> [error |-> "", df |-> d, dups |-> dups, afectados |-> 0]

\* mutant of OperacionRealizada: the difference is taken the wrong way round
OperacionRealizadaInvertida(limpieza, afectados) ==
    [tipo |-> limpieza.tipo, parametros |-> limpieza.parametros, afectados |-> 0 - afectados]

OperacionRealizada(limpieza, afectados) ==
    [tipo |-> limpieza.tipo, parametros |-> limpieza.parametros, afectados |-> afectados]

----------------------------------------------------------------------------
(* Paths, URLs and responses.                                              *)

Path(dir, name) == [dir |-> dir, name |-> name]

\* os.path.basename(ruta_dataset)
Basename(ruta) == ruta.name

\* temp_path = f"temp/{os.path.basename(ruta_dataset)}"
TempPath(ruta) == Path("temp", Basename(ruta))

\* clean_filename = f"clean_multi_{os.path.basename(ruta_dataset)}"
CleanFilename(ruta) == "clean_multi_" \o Basename(ruta)

CleanPath(ruta) == Path("temp", CleanFilename(ruta))

RutaStorageClean(ruta) == Path("clean", CleanFilename(ruta))

DupFilename(ruta) == "duplicates_" \o Basename(ruta)

DupPath(ruta) == Path("temp", DupFilename(ruta))

RutaStorageDups(ruta) == Path("duplicates", DupFilename(ruta))

\* supabase.storage.from_("datasets").get_public_url(path)
PublicUrl(p) == "storage/v1/object/public/datasets/" \o p.dir \o "/" \o p.name

NoRequest == [dataset_id |-> -1, tipos_limpieza |-> <<>>]

NoResponse ==
    [status |-> 0, error |-> "", operaciones |-> <<>>, total_afectados |-> 0,
     ruta_dataset_limpio |-> <<>>, ruta_duplicados |-> <<>>, limpieza_id |-> 0]

\* jsonify({"error": ...}), status
ErrorResponse(status, error) == [NoResponse EXCEPT !.status = status, !.error = error]

\* mutant of HayDuplicados: the test is "is not None", true of every frame
HayDuplicadosSiempre(dups) == dups = dups

\* not duplicados_guardados.empty
HayDuplicados(dups) == ~IsEmpty(dups)

----------------------------------------------------------------------------
(* The handler limpiar_dataset_multiple, one action per step between two   *)
(* calls to a collaborator.  i is the invocation (the request served).     *)

Fail(i, status, error) ==
    /\ pc' = [pc EXCEPT ![i] = "done"]
    /\ respuesta' = [respuesta EXCEPT ![i] = ErrorResponse(status, error)]

\* data = request.get_json(); the check of dataset_id and tipos_limpieza
Recibir(i) ==
    /\ pc[i] = "recv"
    /\ IF request[i].dataset_id = 0 \/ request[i].tipos_limpieza = <<>>
       THEN Fail(i, 400, "Debe incluir dataset_id y una lista de tipos_limpieza.")
       ELSE /\ pc' = [pc EXCEPT ![i] = "select"]
            /\ UNCHANGED respuesta
    /\ UNCHANGED <<shared, request, ruta_dataset, df, idx, operaciones_realizadas,
                   total_afectados, duplicados_guardados, uploads, inserts>>

\* supabase.table("datasets").select("*").eq("id", dataset_id).single().execute()
SelectDataset(i) ==
    /\ pc[i] = "select"
    /\ \/ /\ request[i].dataset_id \in DOMAIN datasets
          /\ ruta_dataset' = [ruta_dataset EXCEPT
                 ![i] = datasets[request[i].dataset_id].ruta_almacenamiento]
          /\ pc' = [pc EXCEPT ![i] = "download"]
          /\ UNCHANGED respuesta
       \/ /\ request[i].dataset_id \notin DOMAIN datasets
          /\ Fail(i, 404, "Dataset no encontrado.")
          /\ UNCHANGED ruta_dataset
       \/ /\ Fail(i, 500, "APIError")
          /\ UNCHANGED ruta_dataset
    /\ UNCHANGED <<shared, request, df, idx, operaciones_realizadas,
                   total_afectados, duplicados_guardados, uploads, inserts>>

\* response = storage.download(ruta_dataset); open(temp_path, "wb").write(response)
Download(i) ==
    /\ pc[i] = "download"
    /\ \/ /\ ruta_dataset[i] \in DOMAIN storage
          /\ temp' = Put(temp, TempPath(ruta_dataset[i]), storage[ruta_dataset[i]])
          /\ pc' = [pc EXCEPT ![i] = "read_csv"]
          /\ UNCHANGED respuesta
       \/ /\ Fail(i, 500, "StorageException")
          /\ UNCHANGED temp
    /\ UNCHANGED <<storage, datasets, limpiezas_datos, duplicados_datasets, request,
                   ruta_dataset, df, idx, operaciones_realizadas, total_afectados,
                   duplicados_guardados, uploads, inserts>>

\* df = pd.read_csv(temp_path, ...); the three accumulators are initialised
LeerCsv(i) ==
    /\ pc[i] = "read_csv"
    /\ IF temp[TempPath(ruta_dataset[i])].header = <<>>
       THEN /\ Fail(i, 500, "EmptyDataError")
            /\ UNCHANGED <<df, idx, operaciones_realizadas, total_afectados,
                           duplicados_guardados>>
       ELSE /\ df' = [df EXCEPT ![i] = ReadCsv(temp[TempPath(ruta_dataset[i])])]
            /\ operaciones_realizadas' = [operaciones_realizadas EXCEPT ![i] = <<>>]
            /\ total_afectados' = [total_afectados EXCEPT ![i] = 0]
            /\ duplicados_guardados' = [duplicados_guardados EXCEPT ![i] = EmptyFrame]
            /\ idx' = [idx EXCEPT ![i] = 1]
            /\ pc' = [pc EXCEPT ![i] = "loop"]
            /\ UNCHANGED respuesta
    /\ UNCHANGED <<shared, request, ruta_dataset, uploads, inserts>>

\* mutant of IterarFalla: the exception is swallowed inside the loop (a
\* try/except around one operation) and the loop goes on
IterarFallaIgnorada(i, res) ==
    /\ df' = [df EXCEPT ![i] = res.df]
    /\ idx' = [idx EXCEPT ![i] = @ + 1]
    /\ UNCHANGED <<pc, respuesta, operaciones_realizadas, total_afectados,
                   duplicados_guardados>>

\* an exception raised inside the loop: the except clause answers 500
IterarFalla(i, res) ==
    /\ Fail(i, 500, res.error)
    /\ df' = [df EXCEPT ![i] = res.df]
    /\ UNCHANGED <<idx, operaciones_realizadas, total_afectados, duplicados_guardados>>

\* the end of an iteration: the result is appended and the total increased
IterarExito(i, limpieza, res) ==
    /\ df' = [df EXCEPT ![i] = res.df]
    /\ duplicados_guardados' = [duplicados_guardados EXCEPT ![i] = res.dups]
    /\ operaciones_realizadas' = [operaciones_realizadas EXCEPT
           ![i] = Append(@, OperacionRealizada(limpieza, res.afectados))]
    /\ total_afectados' = [total_afectados EXCEPT ![i] = @ + res.afectados]
    /\ idx' = [idx EXCEPT ![i] = @ + 1]
    /\ UNCHANGED <<pc, respuesta>>

\* one iteration of "for limpieza in tipos_limpieza"
Iterar(i) ==
    /\ pc[i] = "loop"
    /\ idx[i] <= Len(request[i].tipos_limpieza)
    /\ LET limpieza == request[i].tipos_limpieza[idx[i]]
           res == ApplyTipo(df[i], duplicados_guardados[i], limpieza)
       IN IF res.error # ""
          THEN IterarFalla(i, res)
          ELSE IterarExito(i, limpieza, res)
    /\ UNCHANGED <<shared, request, ruta_dataset, uploads, inserts>>

\* df.to_csv(clean_path, index=False)
GuardarLimpio(i) ==
    /\ pc[i] = "loop"
    /\ idx[i] > Len(request[i].tipos_limpieza)
    /\ temp' = Put(temp, CleanPath(ruta_dataset[i]), ToCsv(df[i]))
    /\ pc' = [pc EXCEPT ![i] = "upload_clean"]
    /\ UNCHANGED <<storage, datasets, limpiezas_datos, duplicados_datasets, request,
                   ruta_dataset, df, idx, operaciones_realizadas, total_afectados,
                   duplicados_guardados, respuesta, uploads, inserts>>

\* storage.upload(path, f): the bytes the local file holds now
Upload(i, path, file) ==
    /\ storage' = Put(storage, path, temp[file])
    /\ uploads' = [uploads EXCEPT ![i] = Append(@, [path |-> path, body |-> temp[file]])]

\* mutant of SubirLimpio: a failed upload is logged and the handler goes on
SubirLimpioTolerante(i) ==
    /\ pc[i] = "upload_clean"
    /\ \/ /\ Upload(i, RutaStorageClean(ruta_dataset[i]), CleanPath(ruta_dataset[i]))
          /\ pc' = [pc EXCEPT ![i] = "dups"]
          /\ UNCHANGED respuesta
       \/ /\ pc' = [pc EXCEPT ![i] = "dups"]
          /\ UNCHANGED <<storage, uploads, respuesta>>
    /\ UNCHANGED <<temp, datasets, limpiezas_datos, duplicados_datasets, request,
                   ruta_dataset, df, idx, operaciones_realizadas, total_afectados,
                   duplicados_guardados, inserts>>

\* with open(clean_path, "rb") as f: storage.upload(ruta_storage_clean, f)
SubirLimpio(i) ==
    /\ pc[i] = "upload_clean"
    /\ \/ /\ Upload(i, RutaStorageClean(ruta_dataset[i]), CleanPath(ruta_dataset[i]))
          /\ pc' = [pc EXCEPT ![i] = "dups"]
          /\ UNCHANGED respuesta
       \/ /\ Fail(i, 500, "StorageException")
          /\ UNCHANGED <<storage, uploads>>
    /\ UNCHANGED <<temp, datasets, limpiezas_datos, duplicados_datasets, request,
                   ruta_dataset, df, idx, operaciones_realizadas, total_afectados,
                   duplicados_guardados, inserts>>

\* if not duplicados_guardados.empty: duplicados_guardados.to_csv(dup_path)
GuardarDuplicados(i) ==
    /\ pc[i] = "dups"
    /\ IF HayDuplicados(duplicados_guardados[i])
       THEN /\ temp' = Put(temp, DupPath(ruta_dataset[i]), ToCsv(duplicados_guardados[i]))
            /\ pc' = [pc EXCEPT ![i] = "upload_dups"]
       ELSE /\ pc' = [pc EXCEPT ![i] = "insert"]
            /\ UNCHANGED temp
    /\ UNCHANGED <<storage, datasets, limpiezas_datos, duplicados_datasets, request,
                   ruta_dataset, df, idx, operaciones_realizadas, total_afectados,
                   duplicados_guardados, respuesta, uploads, inserts>>

\* with open(dup_path, "rb") as fdup: storage.upload(ruta_storage_dups, fdup)
SubirDuplicados(i) ==
    /\ pc[i] = "upload_dups"
    /\ \/ /\ Upload(i, RutaStorageDups(ruta_dataset[i]), DupPath(ruta_dataset[i]))
          /\ pc' = [pc EXCEPT ![i] = "insert_dups"]
          /\ UNCHANGED respuesta
       \/ /\ Fail(i, 500, "StorageException")
          /\ UNCHANGED <<storage, uploads>>
    /\ UNCHANGED <<temp, datasets, limpiezas_datos, duplicados_datasets, request,
                   ruta_dataset, df, idx, operaciones_realizadas, total_afectados,
                   duplicados_guardados, inserts>>

FilaDuplicados(i) ==
    [dataset_id |-> request[i].dataset_id,
     ruta_duplicados |-> RutaStorageDups(ruta_dataset[i]),
     num_registros |-> RowCount(duplicados_guardados[i])]

\* supabase.table("duplicados_datasets").insert({...}).execute()
InsertarDuplicados(i) ==
    /\ pc[i] = "insert_dups"
    /\ \/ /\ duplicados_datasets' = Append(duplicados_datasets, FilaDuplicados(i))
          /\ inserts' = [inserts EXCEPT ![i] =
                 Append(@, [table |-> "duplicados_datasets", fila |-> FilaDuplicados(i)])]
          /\ pc' = [pc EXCEPT ![i] = "insert"]
          /\ UNCHANGED respuesta
       \/ /\ Fail(i, 500, "APIError")
          /\ UNCHANGED <<duplicados_datasets, inserts>>
    /\ UNCHANGED <<storage, temp, datasets, limpiezas_datos, request, ruta_dataset, df,
                   idx, operaciones_realizadas, total_afectados, duplicados_guardados,
                   uploads>>

\* ruta_storage_dups: None (the empty option) unless duplicates were saved
RutaDupsOpt(i) ==
    IF HayDuplicados(duplicados_guardados[i])
    THEN <<RutaStorageDups(ruta_dataset[i])>> ELSE <<>>

FilaLimpieza(i) ==
    [id |-> Len(limpiezas_datos) + 1,
     dataset_id |-> request[i].dataset_id,
     tipo_limpieza |-> "multiple",
     parametros_usados |-> operaciones_realizadas[i],
     num_registros_afectados |-> total_afectados[i],
     ruta_dataset_limpio |-> RutaStorageClean(ruta_dataset[i]),
     ruta_duplicados |-> RutaDupsOpt(i),
     estado |-> "Completada"]

RespuestaOk(i) ==
    [status |-> 200,
     error |-> "",
     operaciones |-> operaciones_realizadas[i],
     total_afectados |-> total_afectados[i],
     ruta_dataset_limpio |-> <<PublicUrl(RutaStorageClean(ruta_dataset[i]))>>,
     ruta_duplicados |-> [k \in DOMAIN RutaDupsOpt(i) |-> PublicUrl(RutaDupsOpt(i)[k])],
     limpieza_id |-> Len(limpiezas_datos) + 1]

\* the public URLs, the insert into limpiezas_datos and the 200 response
InsertarLimpieza(i) ==
    /\ pc[i] = "insert"
    /\ \/ /\ limpiezas_datos' = Append(limpiezas_datos, FilaLimpieza(i))
          /\ inserts' = [inserts EXCEPT ![i] =
                 Append(@, [table |-> "limpiezas_datos", fila |-> FilaLimpieza(i)])]
          /\ pc' = [pc EXCEPT ![i] = "done"]
          /\ respuesta' = [respuesta EXCEPT ![i] = RespuestaOk(i)]
       \/ /\ Fail(i, 500, "APIError")
          /\ UNCHANGED <<limpiezas_datos, inserts>>
    /\ UNCHANGED <<storage, temp, datasets, duplicados_datasets, request, ruta_dataset,
                   df, idx, operaciones_realizadas, total_afectados,
                   duplicados_guardados, uploads>>

Next ==
    \E i \in Invocations :
        \/ Recibir(i)
        \/ SelectDataset(i)
        \/ Download(i)
        \/ LeerCsv(i)
        \/ Iterar(i)
        \/ GuardarLimpio(i)
        \/ SubirLimpio(i)
        \/ GuardarDuplicados(i)
        \/ SubirDuplicados(i)
        \/ InsertarDuplicados(i)
        \/ InsertarLimpieza(i)

----------------------------------------------------------------------------
(* Requests and datasets the specifications start from.                    *)

SinParametros == [columnas |-> <<>>, umbral |-> <<>>]

Limpieza(tipo) == [tipo |-> tipo, parametros |-> SinParametros]

LimpiezaOutliers(columnas, umbral) ==
    [tipo |-> "outliers", parametros |-> [columnas |-> columnas, umbral |-> umbral]]

\* sequences over S of length lo..hi
SeqsOf(S, lo, hi) == UNION {[1..n -> S] : n \in lo..hi}

Idle == [i \in Invocations |-> 0]

\* the request r received by invocation 1, no other request
Alone(r) == [i \in Invocations |-> IF i = 1 THEN r ELSE NoRequest]

InitLocals ==
    /\ temp = <<>>
    /\ limpiezas_datos = <<>>
    /\ duplicados_datasets = <<>>
    /\ pc = [i \in Invocations |-> IF request[i] = NoRequest THEN "off" ELSE "recv"]
    /\ ruta_dataset = [i \in Invocations |-> Path("", "")]
    /\ df = [i \in Invocations |-> EmptyFrame]
    /\ idx = Idle
    /\ operaciones_realizadas = [i \in Invocations |-> <<>>]
    /\ total_afectados = Idle
    /\ duplicados_guardados = [i \in Invocations |-> EmptyFrame]
    /\ respuesta = [i \in Invocations |-> NoResponse]
    /\ uploads = [i \in Invocations |-> <<>>]
    /\ inserts = [i \in Invocations |-> <<>>]

\* x = 1, 2, 2, missing
CsvX ==
    [header |-> <<"x">>,
     lines |-> << <<FNum(1)>>, <<FNum(2)>>, <<FNum(2)>>, <<FEmpty>> >>]

\* two numeric columns and a text column, a repeated row, a missing text
CsvAbs ==
    [header |-> <<"a", "b", "s">>,
     lines |-> << <<FNum(0), FNum(0), FStr("x")>>,
                  <<FNum(0), FNum(0), FStr("x")>>,
                  <<FNum(0), FNum(1), FEmpty>>,
                  <<FNum(1), FNum(0), FStr("x")>> >>]

\* a line with too many fields, a short line, an "N/A" text, no repeated row
CsvMix ==
    [header |-> <<"a", "s">>,
     lines |-> << <<FNum(5), FStr("y")>>,
                  <<FEmpty, FStr("N/A")>>,
                  <<FNum(7), FStr("y"), FNum(9)>>,
                  <<FNum(6)>> >>]

PipelineStorage ==
    Path("datasets", "x.csv") :> CsvX
    @@ Path("datasets", "abs.csv") :> CsvAbs
    @@ Path("datasets", "mix.csv") :> CsvMix

PipelineDatasets ==
    [id \in 1..3 |->
        [ruta_almacenamiento |->
            Path("datasets", CASE id = 1 -> "x.csv" [] id = 2 -> "abs.csv" [] OTHER -> "mix.csv")]]

PipelineOps ==
    {Limpieza("duplicados"), Limpieza("nulos"), Limpieza("normalizar"),
     LimpiezaOutliers(<<>>, <<>>),
     LimpiezaOutliers(<< <<"a", "b">> >>, <<1>>),
     LimpiezaOutliers(<< <<"s">> >>, <<>>),
     LimpiezaOutliers(<< <<"a", "z">> >>, <<>>)}

\* the requests of Spec: every list of up to MaxOps operations on a stored
\* dataset, and the requests the handler refuses
PipelineRequests ==
    {[dataset_id |-> id, tipos_limpieza |-> ops] :
        id \in DOMAIN PipelineDatasets, ops \in SeqsOf(PipelineOps, 0, MaxOps)}
    \cup {[dataset_id |-> 0, tipos_limpieza |-> <<Limpieza("nulos")>>],
          [dataset_id |-> 9, tipos_limpieza |-> <<Limpieza("nulos")>>]}

\* One request served on its own.
Init ==
    /\ storage = PipelineStorage
    /\ datasets = PipelineDatasets
    /\ \E r \in PipelineRequests : request = Alone(r)
    /\ InitLocals

Spec == Init /\ [][Next]_vars

----------------------------------------------------------------------------
(* SpecOps: one operation on every small dataset of columns a, b, s.       *)

LinePool ==
    {<<FNum(0), FNum(0), FStr("x")>>,
     <<FNum(0), FNum(1), FStr("x")>>,
     <<FNum(1), FNum(0), FStr("x")>>,
     <<FNum(0), FNum(0), FEmpty>>,
     <<FEmpty, FNum(1), FStr("x")>>,
     <<FNum(1), FEmpty, FEmpty>>}

GeneratedCsvs ==
    {[header |-> <<"a", "b", "s">>, lines |-> ls] : ls \in SeqsOf(LinePool, 1, MaxRows)}

SingleOps ==
    {Limpieza("duplicados"), Limpieza("nulos"), Limpieza("normalizar"),
     LimpiezaOutliers(<<>>, <<>>),
     LimpiezaOutliers(<<>>, <<1>>),
     LimpiezaOutliers(<< <<"a", "b">> >>, <<1>>),
     LimpiezaOutliers(<< <<"b", "a">> >>, <<1>>),
     LimpiezaOutliers(<< <<"b", "a">> >>, <<>>),
     LimpiezaOutliers(<< <<"a">> >>, <<2>>),
     LimpiezaOutliers(<< <<"s">> >>, <<>>)}

InitOps ==
    /\ \E csv \in GeneratedCsvs : storage = (Path("datasets", "d.csv") :> csv)
    /\ datasets = [id \in {1} |-> [ruta_almacenamiento |-> Path("datasets", "d.csv")]]
    /\ \E op \in SingleOps : request = Alone([dataset_id |-> 1, tipos_limpieza |-> <<op>>])
    /\ InitLocals

SpecOps == InitOps /\ [][Next]_vars

----------------------------------------------------------------------------
(* SpecConc: two requests served at once (the server runs each request in  *)
(* a thread of its own), on two datasets whose paths have the same base    *)
(* name.                                                                   *)

CsvOtro ==
    [header |-> <<"x">>, lines |-> << <<FNum(3)>>, <<FNum(3)>> >>]

ConcRequests ==
    {[dataset_id |-> 1, tipos_limpieza |-> <<Limpieza("duplicados")>>],
     [dataset_id |-> 1, tipos_limpieza |-> <<Limpieza("nulos")>>],
     [dataset_id |-> 2, tipos_limpieza |-> <<Limpieza("duplicados")>>]}

InitConc ==
    /\ storage = (Path("datasets", "x.csv") :> CsvX @@ Path("subidos", "x.csv") :> CsvOtro)
    /\ datasets = [id \in 1..2 |->
           [ruta_almacenamiento |-> Path(IF id = 1 THEN "datasets" ELSE "subidos", "x.csv")]]
    /\ request \in [Invocations -> ConcRequests]
    /\ InitLocals

SpecConc == InitConc /\ [][Next]_vars

----------------------------------------------------------------------------
(* Properties.                                                             *)

KnownKinds == {"duplicados", "nulos", "outliers"}

Tipos(i) == request[i].tipos_limpieza

UploadedTo(i, path) == \E k \in DOMAIN uploads[i] : uploads[i][k].path = path

InsertedInto(i, table) == \E k \in DOMAIN inserts[i] : inserts[i][k].table = table

RECURSIVE RemovedByDedup(_)
\* the rows the "duplicados" operations of a report removed, in total
RemovedByDedup(ops) ==
    IF ops = <<>> THEN 0
    ELSE (IF ops[1].tipo = "duplicados" THEN ops[1].afectados ELSE 0)
         + RemovedByDedup(Tail(ops))

\* C1: the side-table holds the rows removed by all the "duplicados"
\* operations run so far: as many rows as those operations report removed.
C1_SideTableAccumulates ==
    \A i \in Invocations :
        RowCount(duplicados_guardados[i]) = RemovedByDedup(operaciones_realizadas[i])

\* the errors an operation of the loop raises
OperationErrors == {"KeyError", "TypeError"}

\* an "outliers" operation that lists a column the frame d does not have
ListsMissingColumn(limpieza, d) ==
    /\ limpieza.tipo = "outliers"
    /\ limpieza.parametros.columnas # <<>>
    /\ \E col \in Range(limpieza.parametros.columnas[1]) : ~HasColumn(d, col)

\* C2: when an operation of the list fails, the invocation ends with the
\* error (status 500), the report holds the operations before it only, and
\* the invocation has uploaded nothing and inserted nothing; an operation that
\* lists a missing column is never passed: the loop position never goes
\* beyond it and nothing is published.
C2_FailedOperationPublishesNothing ==
    \A i \in Invocations :
        /\ (pc[i] = "done" /\ respuesta[i].error \in OperationErrors) =>
              /\ respuesta[i].status = 500
              /\ idx[i] \in DOMAIN Tipos(i)
              /\ Len(operaciones_realizadas[i]) = idx[i] - 1
              /\ uploads[i] = <<>>
              /\ inserts[i] = <<>>
        /\ \A k \in DOMAIN Tipos(i) :
              (idx[i] >= 1 /\ ListsMissingColumn(Tipos(i)[k], df[i])) =>
                  /\ idx[i] <= k
                  /\ pc[i] \in {"loop", "done"}
                  /\ (pc[i] = "done" => respuesta[i].status = 500)
                  /\ uploads[i] = <<>>
                  /\ inserts[i] = <<>>

\* an operation failed after earlier operations changed the frame and before
\* the last operation of the list
C2_Witness ==
    \E i \in Invocations :
        /\ pc[i] = "done"
        /\ respuesta[i].error = "KeyError"
        /\ total_afectados[i] > 0
        /\ idx[i] < Len(Tipos(i))

\* C6: the duplicates artifact and the duplicados_datasets record exist only
\* for a non-empty side-table; a run that answers 200 has uploaded the cleaned
\* artifact and inserted the main record, and has published the duplicates
\* artifact and its record exactly when the side-table has rows; without rows
\* the duplicates URL of the answer is absent.
C6_DuplicatesPublishedIffNonEmpty ==
    \A i \in Invocations :
        LET hay == RowCount(duplicados_guardados[i]) > 0
            ruta == ruta_dataset[i]
        IN /\ UploadedTo(i, RutaStorageDups(ruta)) => hay
           /\ InsertedInto(i, "duplicados_datasets") =>
                  hay /\ UploadedTo(i, RutaStorageDups(ruta))
           /\ respuesta[i].status = 200 =>
                  /\ UploadedTo(i, RutaStorageClean(ruta))
                  /\ InsertedInto(i, "limpiezas_datos")
                  /\ hay <=> UploadedTo(i, RutaStorageDups(ruta))
                  /\ hay <=> InsertedInto(i, "duplicados_datasets")
                  /\ Len(uploads[i]) = (IF hay THEN 2 ELSE 1)
                  /\ Len(inserts[i]) = (IF hay THEN 2 ELSE 1)
                  /\ hay <=> respuesta[i].ruta_duplicados # <<>>

\* a successful run whose "duplicados" operation found nothing to remove
C6_Witness ==
    \E i \in Invocations :
        /\ respuesta[i].status = 200
        /\ \E k \in DOMAIN operaciones_realizadas[i] :
               operaciones_realizadas[i][k].tipo = "duplicados"
        /\ RowCount(duplicados_guardados[i]) = 0
        /\ Len(uploads[i]) = 1
        /\ respuesta[i].ruta_duplicados = <<>>

----------------------------------------------------------------------------
(* Properties of one iteration of the loop.                                *)

\* invocation i runs the operation at its loop position in this step
Moves(i) ==
    /\ pc[i] = "loop"
    /\ idx[i] <= Len(Tipos(i))
    /\ <<pc[i], idx[i]>> # <<pc'[i], idx'[i]>>

\* the step ends the iteration without an exception
Succeeds(i) == pc'[i] = "loop" /\ idx'[i] = idx[i] + 1

Current(i) == Tipos(i)[idx[i]]

\* the entry the step appends to the report
NewEntry(i) == operaciones_realizadas'[i][Len(operaciones_realizadas'[i])]

NullCells(d) ==
    {c \in (DOMAIN d.rows) \X (DOMAIN d.columns) : d.rows[c[1]][c[2]] = NULL}

\* C5: "nulos" never fails, reports the number of missing cells of the frame
\* it met, leaves no missing cell, puts "N/A" in the missing cells of object
\* (text) columns and 0 in those of the other columns, and changes neither a
\* cell that held a value nor the number of rows.
C5_FillNullsCountsCells ==
    [][\A i \in Invocations :
        (Moves(i) /\ Current(i).tipo = "nulos") =>
            LET old == df[i]
                new == df'[i]
            IN /\ Succeeds(i)
               /\ new.columns = old.columns
               /\ new.dtypes = old.dtypes
               /\ Len(new.rows) = Len(old.rows)
               /\ \A r \in DOMAIN old.rows : \A j \in DOMAIN old.columns :
                      new.rows[r][j] =
                          IF old.rows[r][j] # NULL THEN old.rows[r][j]
                          ELSE IF old.dtypes[j] = "object" THEN Str("N/A")
                          ELSE Num(0)
               /\ NullCells(new) = {}
               /\ NewEntry(i).afectados = Cardinality(NullCells(old))
               /\ duplicados_guardados'[i] = duplicados_guardados[i]
      ]_vars

\* "nulos" filled a text cell and a numeric cell, more cells than the frame
\* has rows
C5_Witness ==
    \E i \in Invocations :
        /\ pc[i] = "loop"
        /\ idx[i] = 2
        /\ operaciones_realizadas[i][1].tipo = "nulos"
        /\ operaciones_realizadas[i][1].afectados > RowCount(df[i])
        /\ \E r \in DOMAIN df[i].rows : \E j, h \in DOMAIN df[i].columns :
               df[i].rows[r][j] = Str("N/A") /\ df[i].rows[r][h] = Num(0)

\* C8: an operation whose tipo is none of the three does not fail; the frame,
\* the side-table and the total are left as they are, the report gets the
\* entry of the operation with afectados 0, and the loop goes on to the next
\* operation.
C8_UnknownKindIsNoOp ==
    [][\A i \in Invocations :
        (Moves(i) /\ Current(i).tipo \notin KnownKinds) =>
            /\ Succeeds(i)
            /\ df'[i] = df[i]
            /\ duplicados_guardados'[i] = duplicados_guardados[i]
            /\ total_afectados'[i] = total_afectados[i]
            /\ operaciones_realizadas'[i] =
                   Append(operaciones_realizadas[i],
                          [tipo |-> Current(i).tipo,
                           parametros |-> Current(i).parametros,
                           afectados |-> 0])
      ]_vars

\* an operation of unknown tipo was recorded with afectados 0 and an operation
\* after it removed or filled something
C8_Witness ==
    \E i \in Invocations : \E k, m \in DOMAIN operaciones_realizadas[i] :
        /\ k < m
        /\ operaciones_realizadas[i][k].tipo \notin KnownKinds
        /\ operaciones_realizadas[i][k].afectados = 0
        /\ operaciones_realizadas[i][m].afectados > 0

RECURSIVE SumAfectados(_)
SumAfectados(ops) ==
    IF ops = <<>> THEN 0 ELSE ops[1].afectados + SumAfectados(Tail(ops))

IsPrefix(s, t) == Len(s) <= Len(t) /\ \A k \in DOMAIN s : t[k] = s[k]

ReportMatches(i) ==
    LET ops == operaciones_realizadas[i] IN
    /\ idx[i] >= 1 => Len(ops) = idx[i] - 1
    /\ Len(ops) <= Len(Tipos(i))
    /\ \A k \in DOMAIN ops :
          /\ ops[k].tipo = Tipos(i)[k].tipo
          /\ ops[k].parametros = Tipos(i)[k].parametros
          /\ ops[k].afectados >= 0
    /\ total_afectados[i] = SumAfectados(ops)

\* C9: after every step the report holds one entry per operation executed so
\* far, in the order submitted, with the tipo and parametros submitted and
\* afectados >= 0; the entries already appended are unchanged; the total is
\* the sum of the entries' afectados.
C9_ReportOnePerOperation ==
    [][\A i \in Invocations :
        /\ ReportMatches(i)'
        /\ IsPrefix(operaciones_realizadas[i], operaciones_realizadas'[i])
      ]_vars

\* [duplicados, nulos] on x = 1, 2, 2, missing: afectados 1 and 1, total 2
C9_Witness ==
    \E i \in Invocations :
        /\ ruta_dataset[i] \in DOMAIN storage
        /\ ReadCsv(storage[ruta_dataset[i]]).rows = << <<Num(1)>>, <<Num(2)>>, <<Num(2)>>, <<NULL>> >>
        /\ Len(operaciones_realizadas[i]) = 2
        /\ operaciones_realizadas[i][1] = [tipo |-> "duplicados", parametros |-> SinParametros, afectados |-> 1]
        /\ operaciones_realizadas[i][2] = [tipo |-> "nulos", parametros |-> SinParametros, afectados |-> 1]
        /\ total_afectados[i] = 2
        /\ df[i].rows = << <<Num(1)>>, <<Num(2)>>, <<Num(0)>> >>

----------------------------------------------------------------------------
(* Properties of "outliers".                                               *)

RECURSIVE Reverse(_)
Reverse(s) == IF s = <<>> THEN <<>> ELSE Append(Reverse(Tail(s)), s[1])

\* the step is a successful "outliers" operation
OutliersStep(i) == Moves(i) /\ Succeeds(i) /\ Current(i).tipo = "outliers"

\* the columns the operation targets
Targets(i) == GetColumnas(Current(i).parametros, df[i])

\* C3 (as stated): listing the columns in the opposite order yields the same
\* final rows and the same afectados.
C3_ColumnOrderInvariant ==
    [][\A i \in Invocations :
        (OutliersStep(i) /\ Current(i).parametros.columnas # <<>>) =>
            LET alt == Outliers(df[i], duplicados_guardados[i],
                                [Current(i).parametros EXCEPT
                                    !.columnas = <<Reverse(Targets(i))>>])
            IN /\ alt.error = ""
               /\ Range(alt.df.rows) = Range(df'[i].rows)
               /\ alt.afectados = NewEntry(i).afectados
      ]_vars

RECURSIVE OneByOne(_, _, _, _)
\* "outliers" run once per column of cols, from position k on, each run on
\* the frame the run before it left
OneByOne(d, cols, umbral, k) ==
    IF k > Len(cols) THEN d
    ELSE OneByOne(Outliers(d, EmptyFrame,
                           [columnas |-> << <<cols[k]>> >>, umbral |-> umbral]).df,
                  cols, umbral, k + 1)

\* C3 (amended): "outliers" on the columns [A, B] leaves the frame that
\* "outliers" on [A] followed by "outliers" on [B] leaves, and reports the rows
\* the two remove together: the columns are filtered one after the other in
\* the order listed, each on the rows the ones before it kept.
C3_ColumnsFilteredInListedOrder ==
    [][\A i \in Invocations :
        OutliersStep(i) =>
            /\ df'[i] = OneByOne(df[i], Targets(i), Current(i).parametros.umbral, 1)
            /\ NewEntry(i).afectados = RowCount(df[i]) - RowCount(df'[i])
      ]_vars

\* "outliers" on two listed columns removed a row
C3_Witness ==
    \E i \in Invocations : \E k \in DOMAIN operaciones_realizadas[i] :
        LET op == operaciones_realizadas[i][k] IN
        /\ op.tipo = "outliers"
        /\ op.parametros.columnas # <<>>
        /\ Len(op.parametros.columnas[1]) = 2
        /\ op.afectados > 0
        /\ RowCount(df[i]) > 0

\* the numbers of vals in non-decreasing order
SortedNumbers(vals) ==
    CHOOSE s \in [DOMAIN vals -> Range(vals)] :
        /\ \A a, b \in DOMAIN s : a < b => s[a] <= s[b]
        /\ \A v \in Range(vals) :
               Cardinality({a \in DOMAIN s : s[a] = v})
                   = Cardinality({a \in DOMAIN vals : vals[a] = v})

\* 4 times the quartile q (1 or 3) of a non-empty sequence of numbers: the
\* value at position q * (n - 1) / 4 of the sorted numbers, interpolated
\* linearly between neighbours
Quartile4(vals, q) ==
    LET s == SortedNumbers(vals)
        h == q * (Len(vals) - 1)
        lo == (h \div 4) + 1
        hi == IF lo < Len(vals) THEN lo + 1 ELSE lo
    IN 4 * s[lo] + (h % 4) * (s[hi] - s[lo])

\* v lies within [Q1 - t * IQR, Q3 + t * IQR] of the numbers vals (t in halves)
InBound(v, vals, t) ==
    /\ v.k = "num"
    /\ Len(vals) > 0
    /\ LET q1 == Quartile4(vals, 1)
           q3 == Quartile4(vals, 3)
       IN /\ 2 * q1 - t * (q3 - q1) <= 8 * v.n
          /\ 8 * v.n <= 2 * q3 + t * (q3 - q1)

\* the numbers the rows rs of d hold in column j
NumbersOf(d, rs, j) ==
    LET sel == SelectIdx(d.rows, {r \in rs : d.rows[r][j].k = "num"}, 1)
    IN [a \in DOMAIN sel |-> sel[a][j].n]

RECURSIVE Survivors(_, _, _, _)
\* the rows of d within the bound of each of the first k columns of cols, the
\* bound of a column being taken over the rows within the bounds before it
Survivors(d, cols, t, k) ==
    IF k = 0 THEN DOMAIN d.rows
    ELSE LET prev == Survivors(d, cols, t, k - 1)
             j == ColIndex(d, cols[k])
         IN {r \in prev : InBound(d.rows[r][j], NumbersOf(d, prev, j), t)}

NumericTargets(i) ==
    \A c \in DOMAIN Targets(i) :
        /\ HasColumn(df[i], Targets(i)[c])
        /\ Dtype(df[i], Targets(i)[c]) \in {"float64", "int64"}

\* C4: on numeric target columns and a threshold t > 0, "outliers" does not
\* fail and keeps, in their order, exactly the rows whose value lies within
\* [Q1 - t * IQR, Q3 + t * IQR] for every target column (the quartiles of a
\* column taken over the rows still in the frame when the column is
\* filtered); afectados is the number of rows removed.
C4_KeepsExactlyRowsWithinBounds ==
    [][\A i \in Invocations :
        (Moves(i) /\ Current(i).tipo = "outliers" /\ NumericTargets(i)
            /\ GetUmbral(Current(i).parametros) > 0) =>
            LET kept == Survivors(df[i], Targets(i),
                                  GetUmbral(Current(i).parametros), Len(Targets(i)))
            IN /\ Succeeds(i)
               /\ df'[i] = [df[i] EXCEPT !.rows = SelectIdx(df[i].rows, kept, 1)]
               /\ NewEntry(i).afectados = RowCount(df[i]) - Cardinality(kept)
      ]_vars

\* "outliers" on two numeric columns removed a row and kept another
C4_Witness ==
    \E i \in Invocations :
        /\ pc[i] = "loop"
        /\ idx[i] = 2
        /\ operaciones_realizadas[i][1].tipo = "outliers"
        /\ operaciones_realizadas[i][1].parametros.columnas = << <<"a", "b">> >>
        /\ operaciones_realizadas[i][1].afectados > 0
        /\ RowCount(df[i]) > 0
        /\ \A j \in DOMAIN df[i].columns :
               df[i].columns[j] \in {"a", "b"} => df[i].dtypes[j] \in {"float64", "int64"}

----------------------------------------------------------------------------
(* Properties of invocations served at the same time.                      *)

\* C7: what an invocation parses is the stored bytes of its own dataset, and
\* what it uploads is the csv of its own frame and of its own side-table.
C7_InvocationsShareNothing ==
    \A i \in Invocations :
        /\ (pc[i] = "loop" /\ idx[i] = 1) => df[i] = ReadCsv(storage[ruta_dataset[i]])
        /\ \A k \in DOMAIN uploads[i] :
              /\ uploads[i][k].path = RutaStorageClean(ruta_dataset[i]) =>
                     uploads[i][k].body = ToCsv(df[i])
              /\ uploads[i][k].path = RutaStorageDups(ruta_dataset[i]) =>
                     uploads[i][k].body = ToCsv(duplicados_guardados[i])

Completada(i) ==
    \E k \in DOMAIN inserts[i] :
        /\ inserts[i][k].table = "limpiezas_datos"
        /\ inserts[i][k].fila.estado = "Completada"

\* C10: an invocation has inserted its 'Completada' record only if it has
\* uploaded the cleaned artifact and, when its side-table has rows, uploaded
\* the duplicates artifact and inserted the duplicados_datasets record; the
\* record is inserted exactly when the answer is the 200 summary, and an
\* invocation that ended otherwise answered an error and inserted no such
\* record; the table holds one 'Completada' row per such invocation.
C10_CompletadaOnlyAfterPublishing ==
    /\ \A i \in Invocations :
          /\ Completada(i) =>
                /\ UploadedTo(i, RutaStorageClean(ruta_dataset[i]))
                /\ RowCount(duplicados_guardados[i]) > 0 =>
                       /\ UploadedTo(i, RutaStorageDups(ruta_dataset[i]))
                       /\ InsertedInto(i, "duplicados_datasets")
                /\ inserts[i][Len(inserts[i])].table = "limpiezas_datos"
          /\ Completada(i) <=> respuesta[i].status = 200
          /\ (pc[i] = "done" /\ ~Completada(i)) =>
                 respuesta[i].status \in {400, 404, 500} /\ respuesta[i].error # ""
    /\ Len(limpiezas_datos) = Cardinality({i \in Invocations : Completada(i)})

\* both invocations reached the insert into limpiezas_datos: one completed
\* with a duplicates artifact, the other failed at an earlier upload
C10_Witness ==
    \E i, j \in Invocations :
        /\ Completada(i)
        /\ Len(uploads[i]) = 2
        /\ InsertedInto(i, "duplicados_datasets")
        /\ pc[j] = "done"
        /\ respuesta[j].error = "StorageException"
        /\ operaciones_realizadas[j] # <<>>
        /\ ~Completada(j)

====
